---- MODULE Spec2Model ----
(***************************************************************************)
(* Payroll / vacation policy engine of PatronesGrupal.                     *)
(*                                                                         *)
(* State: the orchestrator's employee list (EmployeeManager.employees),    *)
(* each employee with its balance, its bound policies and its transaction  *)
(* log; the wall clock read by log_transaction; and the outcome of the     *)
(* most recent operation (return value or raised exception, and what the   *)
(* handler printed after clearing the screen).                             *)
(*                                                                         *)
(* Money is modelled in whole currency units: the modelled salaries are    *)
(* multiples of 100, for which salary * bonus_percent is exact.            *)
(* The employee's name is only printed and is left out.  Console inputs    *)
(* are taken as already parsed; days is a positive integer, as the         *)
(* request_vacation contract requires.                                     *)
(*                                                                         *)
(* FreelancerVacationPolicy and Employee.can_request_vacation are used by  *)
(* main.py but defined in none of the source files; they follow the        *)
(* written specification (section 4.2).                                    *)
(*                                                                         *)
(* Spec is the engine with one employee of every role and employment       *)
(* type; SpecTeam has several employees of fewer kinds.                    *)
(***************************************************************************)
EXTENDS Integers, Sequences, FiniteSets, TLC

VARIABLES employees, now, last

vars == <<employees, now, last>>

(* ---------------- bounds ---------------- *)
MaxEmployees == 1
MaxTeam == 2
MaxRecords == 2
MaxTime == 1

(* ---------------- program constants ---------------- *)
InitialVacationDays == 25
BonusPercent == 10
BonusThreshold == 160
BonusAmount == 100
ManagerPayoutCap == 10
VPRequestCap == 5

(* ---------------- inputs ---------------- *)
Roles == {"manager", "vice_president", "intern", "freelancer", "developer"}
EmpTypes == {"salaried", "hourly", "freelancer", "intern", "contractor"}
DaysSet == {1, 5, 6, 10, 11, 25, 26}
Salaries == {5000}
Rates == {30}
HoursSet == {160, 170}
ProjectLists == {<<1200, 1800>>}
TeamRoles == {"developer", "freelancer"}
TeamTypes == {"salaried", "intern"}
TeamDays == {5, 26}

(* ---------------- results of a call ---------------- *)
Returned(emp, value) ==
    [ok |-> TRUE, error |-> "", emp |-> emp, value |-> value]

Raised(emp, msg) ==
    [ok |-> FALSE, error |-> msg, emp |-> emp, value |-> 0]

(* ---------------- Employee ---------------- *)
Employee(cls, role, vacation_policy, payment_policy) ==
    [cls |-> cls, role |-> role,
     vacation_days |-> InitialVacationDays,
     vacation_policy |-> vacation_policy,
     payment_policy |-> payment_policy,
     transactions |-> <<>>,
     salary |-> 0, rate |-> 0, hours |-> 0, projects |-> <<>>]

SalariedEmployee(role, salary, vacation_policy, payment_policy) ==
    [Employee("SalariedEmployee", role, vacation_policy, payment_policy)
        EXCEPT !.salary = salary]

HourlyEmployee(role, rate, hours, vacation_policy, payment_policy) ==
    [Employee("HourlyEmployee", role, vacation_policy, payment_policy)
        EXCEPT !.rate = rate, !.hours = hours]

Freelancer(projects, vacation_policy, payment_policy) ==
    [Employee("Freelancer", "freelancer", vacation_policy, payment_policy)
        EXCEPT !.projects = projects]

Intern(vacation_policy, payment_policy) ==
    Employee("Intern", "intern", vacation_policy, payment_policy)

log_transaction(employee, type_op, amount, description, t) ==
    [employee EXCEPT !.transactions =
        Append(@, [date |-> t, type |-> type_op, amount |-> amount,
                   description |-> description])]

(* ---------------- payment policies ---------------- *)
RECURSIVE SumAmounts(_)
SumAmounts(projects) ==
    IF projects = <<>> THEN 0
    ELSE Head(projects) + SumAmounts(Tail(projects))

SalariedPaymentPolicy(employee, t) ==
    LET bonus == (employee.salary * BonusPercent) \div 100
        total == employee.salary + bonus
    IN  Returned(log_transaction(employee, "payment", total,
                                 "Salaried + 10% bonus", t), total)

(* faulty variant: the bonus is paid from the threshold on *)
HourlyPaymentPolicy_BonusAtThreshold(employee, t) ==
    LET base  == employee.rate * employee.hours
        bonus == IF employee.hours >= BonusThreshold THEN BonusAmount ELSE 0
        total == base + bonus
    IN  Returned(log_transaction(employee, "payment", total,
                                 "Hourly + bonus if > threshold", t), total)

HourlyPaymentPolicy(employee, t) ==
    LET base  == employee.rate * employee.hours
        bonus == IF employee.hours > BonusThreshold THEN BonusAmount ELSE 0
        total == base + bonus
    IN  Returned(log_transaction(employee, "payment", total,
                                 "Hourly + bonus if > threshold", t), total)

FreelancerPaymentPolicy(employee, t) ==
    LET total == SumAmounts(employee.projects)
    IN  Returned(log_transaction(employee, "payment", total,
                                 "Freelancer project payout", t), total)

(* faulty variant: the intern payment is returned but never logged *)
InternPaymentPolicy_NoLog(employee, t) ==
    Returned(employee, 0)

InternPaymentPolicy(employee, t) ==
    Returned(log_transaction(employee, "payment", 0, "Interns not paid", t), 0)

calculate_payment(employee, t) ==
    CASE employee.payment_policy = "salaried"   -> SalariedPaymentPolicy(employee, t)
      [] employee.payment_policy = "hourly"     -> HourlyPaymentPolicy(employee, t)
      [] employee.payment_policy = "freelancer" -> FreelancerPaymentPolicy(employee, t)
      [] employee.payment_policy = "intern"     -> InternPaymentPolicy(employee, t)

(* ---------------- vacation policies ---------------- *)
MsgIntern == "Interns cannot take vacations or payouts."
MsgFreelancer == "Freelancers cannot take vacations or payouts."
MsgPayoutCap == "Managers can only request up to 10 days payout."
MsgPerRequestCap == "VPs can only request 5 days per request."
MsgInsufficient == "Not enough vacation days."

InternVacationPolicy(employee, days, payout, t) ==
    Raised(employee, MsgIntern)

FreelancerVacationPolicy(employee, days, payout, t) ==
    Raised(employee, MsgFreelancer)

(* faulty variant: the days are deducted before the balance is checked *)
ManagerVacationPolicy_DeductFirst(employee, days, payout, t) ==
    IF payout /\ days > ManagerPayoutCap
    THEN Raised(employee, MsgPayoutCap)
    ELSE LET deducted == [employee EXCEPT !.vacation_days = @ - days]
         IN  IF deducted.vacation_days < 0
             THEN Raised(deducted, MsgInsufficient)
             ELSE Returned(log_transaction(deducted, "vacation", days,
                                           "Manager vacation/payout", t), 0)

(* faulty variant: the balance is checked before the payout cap *)
ManagerVacationPolicy_BalanceFirst(employee, days, payout, t) ==
    IF employee.vacation_days < days
    THEN Raised(employee, MsgInsufficient)
    ELSE IF payout /\ days > ManagerPayoutCap
    THEN Raised(employee, MsgPayoutCap)
    ELSE Returned(log_transaction(
                     [employee EXCEPT !.vacation_days = @ - days],
                     "vacation", days, "Manager vacation/payout", t), 0)

(* faulty variant: a payout is logged but not taken off the balance *)
ManagerVacationPolicy_PayoutNotDeducted(employee, days, payout, t) ==
    IF payout /\ days > ManagerPayoutCap
    THEN Raised(employee, MsgPayoutCap)
    ELSE IF employee.vacation_days < days
    THEN Raised(employee, MsgInsufficient)
    ELSE Returned(log_transaction(
                     [employee EXCEPT !.vacation_days =
                                         IF payout THEN @ ELSE @ - days],
                     "vacation", days, "Manager vacation/payout", t), 0)

ManagerVacationPolicy(employee, days, payout, t) ==
    IF payout /\ days > ManagerPayoutCap
    THEN Raised(employee, MsgPayoutCap)
    ELSE IF employee.vacation_days < days
    THEN Raised(employee, MsgInsufficient)
    ELSE Returned(log_transaction(
                     [employee EXCEPT !.vacation_days = @ - days],
                     "vacation", days, "Manager vacation/payout", t), 0)

(* faulty variant: the per-request cap is off by one *)
VPVacationPolicy_CapOffByOne(employee, days, payout, t) ==
    IF days > VPRequestCap + 1
    THEN Raised(employee, MsgPerRequestCap)
    ELSE Returned(log_transaction(employee, "vacation", days,
                                  "VP vacation/payout", t), 0)

(* faulty variant: the VP policy deducts like the other policies *)
VPVacationPolicy_Deducts(employee, days, payout, t) ==
    IF days > VPRequestCap
    THEN Raised(employee, MsgPerRequestCap)
    ELSE Returned(log_transaction(
                     [employee EXCEPT !.vacation_days = @ - days],
                     "vacation", days, "VP vacation/payout", t), 0)

VPVacationPolicy(employee, days, payout, t) ==
    IF days > VPRequestCap
    THEN Raised(employee, MsgPerRequestCap)
    ELSE Returned(log_transaction(employee, "vacation", days,
                                  "VP vacation/payout", t), 0)

(* faulty variant: no balance check *)
DefaultVacationPolicy_NoBalanceCheck(employee, days, payout, t) ==
    Returned(log_transaction(
                [employee EXCEPT !.vacation_days = @ - days],
                "vacation", days, "Standard vacation/payout", t), 0)

(* faulty variant: a request for the whole balance is denied *)
DefaultVacationPolicy_DeniesEqual(employee, days, payout, t) ==
    IF employee.vacation_days <= days
    THEN Raised(employee, MsgInsufficient)
    ELSE Returned(log_transaction(
                     [employee EXCEPT !.vacation_days = @ - days],
                     "vacation", days, "Standard vacation/payout", t), 0)

DefaultVacationPolicy(employee, days, payout, t) ==
    IF employee.vacation_days < days
    THEN Raised(employee, MsgInsufficient)
    ELSE Returned(log_transaction(
                     [employee EXCEPT !.vacation_days = @ - days],
                     "vacation", days, "Standard vacation/payout", t), 0)

request_vacation(employee, days, payout, t) ==
    CASE employee.vacation_policy = "ManagerVacationPolicy" ->
            ManagerVacationPolicy(employee, days, payout, t)
      [] employee.vacation_policy = "VPVacationPolicy" ->
            VPVacationPolicy(employee, days, payout, t)
      [] employee.vacation_policy = "InternVacationPolicy" ->
            InternVacationPolicy(employee, days, payout, t)
      [] employee.vacation_policy = "FreelancerVacationPolicy" ->
            FreelancerVacationPolicy(employee, days, payout, t)
      [] employee.vacation_policy = "DefaultVacationPolicy" ->
            DefaultVacationPolicy(employee, days, payout, t)

can_request_vacation(employee) ==
    employee.cls \in {"SalariedEmployee", "HourlyEmployee"}

(* ---------------- rendering ---------------- *)
(* sorted(transactions, key=date, reverse=True): a stable sort, so records *)
(* with equal dates keep their append order.                               *)
(* faulty variant: a record goes before the records of its own date, so *)
(* ties come out in reverse append order                                *)
RECURSIVE InsertByDateDesc_TiesReversed(_, _)
InsertByDateDesc_TiesReversed(sorted, x) ==
    IF sorted = <<>> THEN <<x>>
    ELSE IF Head(sorted).date > x.date
    THEN <<Head(sorted)>> \o InsertByDateDesc_TiesReversed(Tail(sorted), x)
    ELSE <<x>> \o sorted

RECURSIVE InsertByDateDesc(_, _)
InsertByDateDesc(sorted, x) ==
    IF sorted = <<>> THEN <<x>>
    ELSE IF Head(sorted).date >= x.date
    THEN <<Head(sorted)>> \o InsertByDateDesc(Tail(sorted), x)
    ELSE <<x>> \o sorted

RECURSIVE SortedByDateDesc(_)
SortedByDateDesc(transactions) ==
    IF transactions = <<>> THEN <<>>
    ELSE InsertByDateDesc(
            SortedByDateDesc(SubSeq(transactions, 1, Len(transactions) - 1)),
            transactions[Len(transactions)])

show_transactions(employee) ==
    SortedByDateDesc(employee.transactions)

(* ---------------- EmployeeFactory ---------------- *)
_get_vacation_policy(role) ==
    CASE role = "manager"        -> "ManagerVacationPolicy"
      [] role = "vice_president" -> "VPVacationPolicy"
      [] role = "intern"         -> "InternVacationPolicy"
      [] role = "freelancer"     -> "FreelancerVacationPolicy"
      [] OTHER                   -> "DefaultVacationPolicy"

create_employee(role, emp_type, salary, rate, hours, projects) ==
    CASE emp_type = "salaried" ->
            Returned(SalariedEmployee(role, salary,
                        _get_vacation_policy(role), "salaried"), 0)
      [] emp_type = "hourly" ->
            Returned(HourlyEmployee(role, rate, hours,
                        _get_vacation_policy(role), "hourly"), 0)
      [] emp_type = "freelancer" ->
            Returned(Freelancer(projects, "DefaultVacationPolicy",
                        "freelancer"), 0)
      [] emp_type = "intern" ->
            Returned(Intern("InternVacationPolicy", "intern"), 0)
      [] OTHER ->
            Raised(Employee("", role, "", ""), "Tipo de empleado no valido.")

(* ---------------- EmployeeManager ---------------- *)
Outcome(op, emp, days, payout, ok, error, value, out) ==
    [op |-> op, emp |-> emp, days |-> days, payout |-> payout,
     ok |-> ok, error |-> error, value |-> value, out |-> out]

MsgIndex == "list index out of range"

(* Python list indexing: -n <= idx < n, negative counts from the end. *)
InRange(idx, n) == -n <= idx /\ idx < n

PyIndex(idx, n) == IF idx < 0 THEN n + idx + 1 ELSE idx + 1

(* every index of a list of n elements, and one beyond it on either side *)
IdxInputs(n) == (0 - (n + 1)) .. n

RECURSIVE TotalRecords(_)
TotalRecords(emps) ==
    IF emps = <<>> THEN 0
    ELSE Len(Head(emps).transactions) + TotalRecords(Tail(emps))

Bounded(emps) == TotalRecords(emps) <= MaxRecords

Indices(emps) == [i \in 1..Len(emps) |-> i]

(* faulty variant: every employee is offered, eligible or not *)
valid_employees_Unfiltered(emps) == Indices(emps)

(* valid_employees, as the positions of its members in employees *)
valid_employees(emps) ==
    SelectSeq(Indices(emps), LAMBDA i : can_request_vacation(emps[i]))

(* faulty variant: the handler returns from inside the loop, after the *)
(* first employee it pays                                              *)
pay_employees_StopsAfterFirst(emps, i, ts, out) ==
    IF i > Len(emps) THEN [emps |-> emps, out |-> out]
    ELSE LET r == calculate_payment(emps[i], ts[i])
         IN  [emps |-> [emps EXCEPT ![i] = r.emp],
              out  |-> Append(out, [ok |-> r.ok, error |-> r.error,
                                    value |-> r.value])]

(* the loop of pay_employees from position i on; ts[i] is the clock when *)
(* employee i is paid                                                    *)
RECURSIVE pay_employees(_, _, _, _)
pay_employees(emps, i, ts, out) ==
    IF i > Len(emps) THEN [emps |-> emps, out |-> out]
    ELSE LET r == calculate_payment(emps[i], ts[i])
         IN  pay_employees([emps EXCEPT ![i] = r.emp], i + 1, ts,
                           Append(out, [ok |-> r.ok, error |-> r.error,
                                        value |-> r.value]))

Init ==
    /\ employees = <<>>
    /\ now = 0
    /\ last = Outcome("init", 0, 0, FALSE, TRUE, "", 0, <<>>)

Tick ==
    /\ now < MaxTime
    /\ now' = now + 1
    /\ UNCHANGED <<employees, last>>

AddEmployee(r) ==
    /\ employees' = IF r.ok THEN Append(employees, r.emp) ELSE employees
    /\ last' = Outcome("create_employee",
                       IF r.ok THEN Len(employees) + 1 ELSE 0,
                       0, FALSE, r.ok, r.error, 0, <<>>)

CreateEmployeeIn(cap, roles, types) ==
    /\ Len(employees) < cap
    /\ \E role \in roles, type_input \in types, salary \in Salaries,
          rate \in Rates, hours \in HoursSet, projects \in ProjectLists :
         LET emp_type == IF role = "freelancer" THEN "freelancer" ELSE type_input
         IN  AddEmployee(create_employee(role, emp_type, salary, rate, hours,
                                         projects))
    /\ UNCHANGED now

(* EmployeeFactory.create_employee called with any role and type *)
FactoryCreateEmployee ==
    /\ Len(employees) < MaxEmployees
    /\ \E role \in Roles, emp_type \in EmpTypes, salary \in Salaries,
          rate \in Rates, hours \in HoursSet, projects \in ProjectLists :
         AddEmployee(create_employee(role, emp_type, salary, rate, hours,
                                     projects))
    /\ UNCHANGED now

RequestVacationIn(daysSet) ==
    LET valid == valid_employees(employees) IN
    /\ IF valid = <<>>
       THEN /\ last' = Outcome("EmployeeManager.request_vacation", 0, 0, FALSE,
                               TRUE, "", 0, <<>>)
            /\ UNCHANGED employees
       ELSE \E idx \in IdxInputs(Len(employees)), days \in daysSet,
               payout \in BOOLEAN :
              IF ~InRange(idx, Len(valid))
              THEN /\ last' = Outcome("EmployeeManager.request_vacation", 0,
                                      0, FALSE, FALSE, MsgIndex, 0, <<>>)
                   /\ UNCHANGED employees
              ELSE LET i == valid[PyIndex(idx, Len(valid))]
                       r == request_vacation(employees[i], days, payout, now)
                   IN  /\ employees' = [employees EXCEPT ![i] = r.emp]
                       /\ Bounded(employees')
                       /\ last' = Outcome("EmployeeManager.request_vacation", i,
                                          days, payout, r.ok, r.error, 0, <<>>)
    /\ UNCHANGED now

EmployeeRequestVacationIn(daysSet) ==
    /\ \E i \in 1..Len(employees), days \in daysSet, payout \in BOOLEAN :
         LET r == request_vacation(employees[i], days, payout, now)
         IN  /\ employees' = [employees EXCEPT ![i] = r.emp]
             /\ Bounded(employees')
             /\ last' = Outcome("Employee.request_vacation", i, days, payout,
                                r.ok, r.error, 0, <<>>)
    /\ UNCHANGED now

(* faulty variant: transactions is one list shared by every employee (a  *)
(* class attribute), so a record logged for one shows up in all logs    *)
EmployeeCalculatePayment_SharedLog ==
    /\ \E i \in 1..Len(employees) :
         LET r   == calculate_payment(employees[i], now)
             rec == r.emp.transactions[Len(r.emp.transactions)]
         IN  /\ employees' = [j \in 1..Len(employees) |->
                                [employees[j] EXCEPT !.transactions =
                                    Append(@, rec)]]
             /\ Bounded(employees')
             /\ last' = Outcome("Employee.calculate_payment", i, 0, FALSE,
                                r.ok, r.error, r.value, <<>>)
    /\ UNCHANGED now

EmployeeCalculatePayment ==
    /\ \E i \in 1..Len(employees) :
         LET r == calculate_payment(employees[i], now)
         IN  /\ employees' = [employees EXCEPT ![i] = r.emp]
             /\ Bounded(employees')
             /\ last' = Outcome("Employee.calculate_payment", i, 0, FALSE,
                                r.ok, r.error, r.value, <<>>)
    /\ UNCHANGED now

PayEmployees ==
    \E ts \in [1..Len(employees) -> now..MaxTime] :
        /\ \A i \in 1..Len(employees) :
              \A j \in 1..Len(employees) : i <= j => ts[i] <= ts[j]
        /\ LET r == pay_employees(employees, 1, ts, <<>>)
           IN  /\ employees' = r.emps
               /\ Bounded(employees')
               /\ last' = Outcome("pay_employees", 0, 0, FALSE, TRUE, "", 0,
                                  r.out)
        /\ now' = IF employees = <<>> THEN now ELSE ts[Len(employees)]

(* faulty variant: the log itself is sorted (list.sort) instead of a sorted copy *)
ViewTransactions_SortsInPlace ==
    /\ \E idx \in IdxInputs(Len(employees)) :
         IF ~InRange(idx, Len(employees))
         THEN /\ last' = Outcome("view_transactions", 0, 0, FALSE, FALSE,
                                 MsgIndex, 0, <<>>)
              /\ UNCHANGED employees
         ELSE LET i == PyIndex(idx, Len(employees))
              IN  /\ employees' = [employees EXCEPT ![i].transactions =
                                      show_transactions(employees[i])]
                  /\ last' = Outcome("view_transactions", i, 0, FALSE, TRUE,
                                     "", 0, show_transactions(employees[i]))
    /\ UNCHANGED now

ViewTransactions ==
    /\ \E idx \in IdxInputs(Len(employees)) :
         IF ~InRange(idx, Len(employees))
         THEN last' = Outcome("view_transactions", 0, 0, FALSE, FALSE,
                              MsgIndex, 0, <<>>)
         ELSE LET i == PyIndex(idx, Len(employees))
              IN  last' = Outcome("view_transactions", i, 0, FALSE, TRUE, "",
                                  0, show_transactions(employees[i]))
    /\ UNCHANGED <<employees, now>>

(* ---------------- one employee, every role and employment type -------- *)
CreateEmployee == CreateEmployeeIn(MaxEmployees, Roles, EmpTypes)

RequestVacation == RequestVacationIn(DaysSet)

EmployeeRequestVacation == EmployeeRequestVacationIn(DaysSet)

Next ==
    \/ Tick
    \/ CreateEmployee
    \/ FactoryCreateEmployee
    \/ RequestVacation
    \/ EmployeeRequestVacation
    \/ EmployeeCalculatePayment
    \/ PayEmployees
    \/ ViewTransactions

Spec == Init /\ [][Next]_vars

(* ---------------- a team: fewer kinds of employee, more of them ------- *)
TeamCreateEmployee == CreateEmployeeIn(MaxTeam, TeamRoles, TeamTypes)

TeamRequestVacation == RequestVacationIn(TeamDays)

TeamEmployeeRequestVacation == EmployeeRequestVacationIn(TeamDays)

NextTeam ==
    \/ Tick
    \/ TeamCreateEmployee
    \/ TeamRequestVacation
    \/ TeamEmployeeRequestVacation
    \/ EmployeeCalculatePayment
    \/ PayEmployees
    \/ ViewTransactions

SpecTeam == Init /\ [][NextTeam]_vars

(* ====================== properties ====================== *)
RequestOps == {"EmployeeManager.request_vacation", "Employee.request_vacation"}

(* the most recent operation was a vacation request that reached a policy *)
IsRequest == last.op \in RequestOps /\ last.emp > 0

LastEmp == employees[last.emp]

(* this step performed an operation (it is not a mere tick of the clock) *)
OpStep == last' # last \/ employees' # employees

IsPrefix(s, t) == Len(s) <= Len(t) /\ SubSeq(t, 1, Len(s)) = s

(* C1: whatever requests and payments were made, no employee's            *)
(* vacation_days is negative.                                             *)
C1_BalanceNeverNegative ==
    \A i \in 1..Len(employees) : employees[i].vacation_days >= 0

C1_Witness ==
    \E i \in 1..Len(employees) :
        /\ employees[i].vacation_days = 0
        /\ Len(employees[i].transactions) > 0
        /\ IsRequest /\ last.emp = i /\ last.ok

(* C2: a step whose request is denied leaves every employee's             *)
(* vacation_days and transaction log as they were.                        *)
C2_DeniedRequestChangesNothing ==
    [][(last'.op \in RequestOps /\ last'.emp > 0 /\ ~last'.ok)
         => employees' = employees]_vars

C2_Witness ==
    /\ IsRequest /\ ~last.ok
    /\ last.error = MsgInsufficient
    /\ LastEmp.vacation_policy = "ManagerVacationPolicy"
    /\ LastEmp.vacation_days < InitialVacationDays

(* C3: a request made to an employee created as an intern or as a         *)
(* freelancer is always denied, with the "not permitted" reason.          *)
C3_InternFreelancerAlwaysDenied ==
    (IsRequest /\ LastEmp.cls \in {"Intern", "Freelancer"})
        => (~last.ok /\ last.error \in {MsgIntern, MsgFreelancer})

(* C4: the orchestrator dispatches a vacation request only to an employee *)
(* whose can_request_vacation() is true.                                  *)
C4_DispatchOnlyToEligible ==
    (last.op = "EmployeeManager.request_vacation" /\ last.emp > 0)
        => can_request_vacation(LastEmp)

C4_Witness ==
    /\ last.op = "EmployeeManager.request_vacation"
    /\ last.emp = 2
    /\ ~can_request_vacation(employees[1])
    /\ can_request_vacation(employees[2])

(* C5: a manager's payout request for more than 10 days is denied with    *)
(* the payout-cap reason and changes nothing, also when the days exceed   *)
(* the balance; a non-payout request for more than 10 days is granted     *)
(* exactly when the balance covers it, and is otherwise denied for        *)
(* insufficient balance.                                                  *)
C5_ManagerPayoutCap ==
    [][(OpStep /\ last'.op \in RequestOps /\ last'.emp > 0
          /\ employees[last'.emp].role = "manager"
          /\ last'.days > ManagerPayoutCap)
         => IF last'.payout
            THEN /\ ~last'.ok
                 /\ last'.error = MsgPayoutCap
                 /\ employees' = employees
            ELSE /\ last'.ok <=> last'.days <= employees[last'.emp].vacation_days
                 /\ ~last'.ok => last'.error = MsgInsufficient]_vars

C5_Witness ==
    /\ IsRequest /\ LastEmp.role = "manager"
    /\ last.payout /\ last.days > LastEmp.vacation_days
    /\ ~last.ok /\ last.error = MsgPayoutCap

(* C6: a vice president's request for more than 5 days is denied with the *)
(* per-request-cap reason, whatever the payout flag and the balance.      *)
C6_VPPerRequestCap ==
    (IsRequest /\ LastEmp.role = "vice_president" /\ last.days > VPRequestCap)
        => (~last.ok /\ last.error = MsgPerRequestCap)

C6_Witness ==
    /\ IsRequest /\ LastEmp.role = "vice_president"
    /\ last.days = 6 /\ last.payout
    /\ ~last.ok /\ last.error = MsgPerRequestCap
    /\ Len(LastEmp.transactions) > 0

(* C7: a vice president's request for at most 5 days is granted and       *)
(* appends exactly one vacation record without changing vacation_days;    *)
(* a vice president's balance is always the initial one.                  *)
C7_VPGrantedWithoutDeduction ==
    [][/\ (OpStep /\ last'.op \in RequestOps /\ last'.emp > 0
             /\ employees[last'.emp].role = "vice_president"
             /\ last'.days <= VPRequestCap)
          => LET before == employees[last'.emp]
                 after  == employees'[last'.emp]
             IN  /\ last'.ok
                 /\ Len(after.transactions) = Len(before.transactions) + 1
                 /\ IsPrefix(before.transactions, after.transactions)
                 /\ after.transactions[Len(after.transactions)].type = "vacation"
                 /\ after.transactions[Len(after.transactions)].amount = last'.days
                 /\ after.vacation_days = before.vacation_days
       /\ \A i \in 1..Len(employees') :
             employees'[i].role = "vice_president"
                => employees'[i].vacation_days = InitialVacationDays]_vars

C7_Witness ==
    /\ IsRequest /\ LastEmp.role = "vice_president"
    /\ last.ok /\ last.days = 5
    /\ Len(LastEmp.transactions) = 2
    /\ LastEmp.transactions[1].type = "vacation"
    /\ LastEmp.transactions[2].type = "vacation"
    /\ LastEmp.vacation_days = InitialVacationDays

(* C8: under the default policy a request is denied, for insufficient     *)
(* balance, exactly when days exceeds vacation_days; otherwise it is      *)
(* granted, days are deducted and exactly one vacation record is          *)
(* appended, whatever the payout flag.                                    *)
C8_DefaultPolicy ==
    [][(OpStep /\ last'.op \in RequestOps /\ last'.emp > 0
          /\ employees[last'.emp].vacation_policy = "DefaultVacationPolicy")
         => LET before == employees[last'.emp]
                after  == employees'[last'.emp]
            IN  IF last'.days > before.vacation_days
                THEN /\ ~last'.ok
                     /\ last'.error = MsgInsufficient
                ELSE /\ last'.ok
                     /\ after.vacation_days = before.vacation_days - last'.days
                     /\ Len(after.transactions) = Len(before.transactions) + 1
                     /\ IsPrefix(before.transactions, after.transactions)
                     /\ after.transactions[Len(after.transactions)].type = "vacation"
                     /\ after.transactions[Len(after.transactions)].amount = last'.days]_vars

C8_Witness ==
    /\ IsRequest /\ LastEmp.role = "developer"
    /\ LastEmp.vacation_policy = "DefaultVacationPolicy"
    /\ last.ok /\ last.payout /\ last.days = InitialVacationDays
    /\ LastEmp.vacation_days = 0
    /\ Len(LastEmp.transactions) = 1

(* C9: every step leaves each employee's log a prefix of what it becomes. *)
C9_LogAppendOnly ==
    [][/\ Len(employees') >= Len(employees)
       /\ \A i \in 1..Len(employees) :
             IsPrefix(employees[i].transactions, employees'[i].transactions)]_vars

C9_Witness ==
    /\ last.op = "view_transactions" /\ last.emp > 0
    /\ Len(LastEmp.transactions) = 2
    /\ LastEmp.transactions[1].date < LastEmp.transactions[2].date
    /\ LastEmp.transactions[1].type = "vacation"
    /\ LastEmp.transactions[2].type = "payment"

(* C10: every calculate_payment succeeds and appends exactly one payment  *)
(* record to the employee paid, every granted request appends exactly one *)
(* vacation record, and a denied request or a rendering appends none; so  *)
(* each successful operation on an employee adds exactly one record.      *)
Grew(i, kind) ==
    /\ Len(employees'[i].transactions) = Len(employees[i].transactions) + 1
    /\ IsPrefix(employees[i].transactions, employees'[i].transactions)
    /\ employees'[i].transactions[Len(employees'[i].transactions)].type = kind

SameLog(i) == employees'[i].transactions = employees[i].transactions

C10_OneRecordPerSuccess ==
    [][OpStep =>
        \A i \in 1..Len(employees) :
          CASE last'.op = "Employee.calculate_payment" ->
                 last'.ok /\ IF i = last'.emp THEN Grew(i, "payment") ELSE SameLog(i)
            [] last'.op = "pay_employees" ->
                 last'.out[i].ok /\ Grew(i, "payment")
            [] last'.op \in RequestOps ->
                 IF i = last'.emp /\ last'.ok THEN Grew(i, "vacation") ELSE SameLog(i)
            [] OTHER -> SameLog(i)]_vars

C10_Witness ==
    \E i \in 1..Len(employees) :
        /\ Len(employees[i].transactions) = 2
        /\ employees[i].transactions[1].type = "payment"
        /\ employees[i].transactions[2].type = "vacation"
        /\ employees[i].cls = "HourlyEmployee"

(* C11: rendering an employee's transactions yields all of its records,   *)
(* latest date first, records of one date in the order they were          *)
(* appended, and leaves the stored log as it was.                         *)
RECURSIVE LatestFirst(_, _)
LatestFirst(log, d) ==
    IF d < 0 THEN <<>>
    ELSE SelectSeq(log, LAMBDA x : x.date = d) \o LatestFirst(log, d - 1)

C11_RenderLatestFirstStable ==
    [][(OpStep /\ last'.op = "view_transactions" /\ last'.emp > 0)
         => /\ employees' = employees
            /\ last'.out = LatestFirst(employees[last'.emp].transactions, now)
            /\ Len(last'.out) = Len(employees[last'.emp].transactions)]_vars

C11_Witness ==
    /\ last.op = "view_transactions" /\ last.emp > 0
    /\ Len(LastEmp.transactions) = 2
    /\ LastEmp.transactions[1].date = LastEmp.transactions[2].date
    /\ LastEmp.transactions[1].type = "payment"
    /\ LastEmp.transactions[2].type = "vacation"
    /\ last.out = LastEmp.transactions

(* C12: an hourly employee is paid rate * hours, plus the bonus exactly   *)
(* when hours is strictly above the threshold (30 * 160 = 4800 at the     *)
(* threshold, 30 * 170 + 100 = 5200 above it), and the payment record     *)
(* carries the returned amount.                                           *)
PaymentOps == {"Employee.calculate_payment", "pay_employees"}

(* what the latest payment operation returned for employee i *)
PaidTo(i) ==
    IF last.op = "pay_employees" THEN last.out[i].value ELSE last.value

C12_HourlyBonusStrictlyAboveThreshold ==
    \A i \in 1..Len(employees) :
        (/\ last.op \in PaymentOps
         /\ last.op = "Employee.calculate_payment" => last.emp = i
         /\ employees[i].cls = "HourlyEmployee")
        => LET e   == employees[i]
               rec == e.transactions[Len(e.transactions)]
           IN  /\ e.hours > BonusThreshold
                    => PaidTo(i) = e.rate * e.hours + BonusAmount
               /\ e.hours <= BonusThreshold
                    => PaidTo(i) = e.rate * e.hours
               /\ (e.rate = 30 /\ e.hours = 160) => PaidTo(i) = 4800
               /\ (e.rate = 30 /\ e.hours = 170) => PaidTo(i) = 5200
               /\ rec.type = "payment"
               /\ rec.amount = PaidTo(i)

C12_Witness ==
    /\ last.op = "Employee.calculate_payment" /\ last.emp > 0
    /\ LastEmp.cls = "HourlyEmployee"
    /\ LastEmp.hours = BonusThreshold
    /\ last.value = 4800
    /\ LastEmp.transactions[Len(LastEmp.transactions)].amount = 4800

(* C13: every employee built by the factory is bound to the vacation      *)
(* policy of its recorded role (manager, vice_president, intern,          *)
(* freelancer, otherwise default) and to the payment policy of its        *)
(* employment type.                                                       *)
PolicyOfRole(role) ==
    CASE role = "manager"        -> "ManagerVacationPolicy"
      [] role = "vice_president" -> "VPVacationPolicy"
      [] role = "intern"         -> "InternVacationPolicy"
      [] role = "freelancer"     -> "FreelancerVacationPolicy"
      [] OTHER                   -> "DefaultVacationPolicy"

PaymentOfClass(cls) ==
    CASE cls = "SalariedEmployee" -> "salaried"
      [] cls = "HourlyEmployee"   -> "hourly"
      [] cls = "Freelancer"       -> "freelancer"
      [] cls = "Intern"           -> "intern"

C13_PoliciesFollowRoleAndType ==
    \A i \in 1..Len(employees) :
        /\ employees[i].vacation_policy = PolicyOfRole(employees[i].role)
        /\ employees[i].payment_policy = PaymentOfClass(employees[i].cls)

(* C14: a payment batch handles every employee of the collection exactly  *)
(* once, in list order; an employee whose payment succeeds gets exactly   *)
(* one payment record carrying the amount paid, one whose payment fails   *)
(* gets none, and neither outcome keeps the later employees from being    *)
(* paid.                                                                  *)
NewRecord(i) == employees'[i].transactions[Len(employees'[i].transactions)]

C14_BatchPaysEveryEmployee ==
    [][(OpStep /\ last'.op = "pay_employees")
         => /\ Len(employees') = Len(employees)
            /\ Len(last'.out) = Len(employees)
            /\ \A i \in 1..Len(employees) :
                 /\ employees'[i].vacation_days = employees[i].vacation_days
                 /\ IF last'.out[i].ok
                    THEN /\ Grew(i, "payment")
                         /\ NewRecord(i).amount = last'.out[i].value
                         /\ NewRecord(i).date >= now
                    ELSE SameLog(i)
            /\ \A i \in 1..Len(employees) : \A j \in 1..Len(employees) :
                 (i < j /\ last'.out[i].ok /\ last'.out[j].ok)
                    => NewRecord(i).date <= NewRecord(j).date]_vars

C14_Witness ==
    /\ last.op = "pay_employees"
    /\ Len(employees) = 2 /\ Len(last.out) = 2
    /\ employees[1].cls = "Intern"
    /\ employees[2].cls = "SalariedEmployee"
    /\ last.out[1].value = 0 /\ last.out[2].value = 5500
    /\ Len(employees[1].transactions) = 1
    /\ Len(employees[2].transactions) = 1
    /\ employees[2].transactions[1].amount = 5500
    /\ employees[1].transactions[1].date < employees[2].transactions[1].date

(* C15: an operation on one employee (payment, request granted or denied, *)
(* rendering) leaves every other employee exactly as it was, also when    *)
(* the employees share a payment policy or a vacation policy class.       *)
SingleEmployeeOps ==
    RequestOps \cup {"Employee.calculate_payment", "view_transactions"}

C15_OtherEmployeesUntouched ==
    [][(OpStep /\ last'.op \in SingleEmployeeOps /\ last'.emp > 0)
         => /\ Len(employees') = Len(employees)
            /\ \A j \in 1..Len(employees) :
                 j # last'.emp => employees'[j] = employees[j]]_vars

C15_Witness ==
    /\ Len(employees) = 2
    /\ employees[1].payment_policy = employees[2].payment_policy
    /\ employees[1].vacation_policy = employees[2].vacation_policy
    /\ last.op = "Employee.calculate_payment" /\ last.emp = 2
    /\ Len(employees[2].transactions) = 2
    /\ employees[2].transactions[1].type = "vacation"
    /\ employees[2].vacation_days = 20
    /\ employees[1].vacation_days = InitialVacationDays
    /\ employees[1].transactions = <<>>

(* C16: for an employee under the Default or the Manager policy, the      *)
(* balance plus the days of all vacation records in its log is always     *)
(* the initial 25; payments and denied requests do not count.             *)
RECURSIVE VacationDaysLogged(_)
VacationDaysLogged(log) ==
    IF log = <<>> THEN 0
    ELSE (IF Head(log).type = "vacation" THEN Head(log).amount ELSE 0)
            + VacationDaysLogged(Tail(log))

C16_VacationDaysConserved ==
    \A i \in 1..Len(employees) :
        employees[i].vacation_policy
              \in {"DefaultVacationPolicy", "ManagerVacationPolicy"}
          => employees[i].vacation_days
                + VacationDaysLogged(employees[i].transactions)
             = InitialVacationDays

C16_Witness ==
    \E i \in 1..Len(employees) :
        /\ employees[i].vacation_policy = "ManagerVacationPolicy"
        /\ Len(employees[i].transactions) = 2
        /\ employees[i].transactions[1].type = "payment"
        /\ employees[i].transactions[2].type = "vacation"
        /\ employees[i].transactions[2].amount = 10
        /\ employees[i].vacation_days = 15
        /\ IsRequest /\ last.emp = i /\ last.payout /\ last.ok

====
